---------------------------- MODULE Spec2Model ----------------------------
(***************************************************************************)
(* A model of nandu: the tokenizer (src/lex.rs), the recursive-descent     *)
(* parser with the gate table (src/parse.rs), the tree rewrite and the     *)
(* printer (src/tree.rs) and the library entry point translate            *)
(* (src/lib.rs, with the parser and rewrite that file carries itself).     *)
(*                                                                         *)
(* Text is a sequence of one-character strings, an identifier is the       *)
(* sequence of its characters, so that printing and tokenizing are real    *)
(* conversions between trees, characters and tokens.                       *)
(***************************************************************************)
EXTENDS Integers, Sequences, FiniteSets, TLC

VARIABLES pc, tree, passes, rewritten, input, lex, parsed, output, proc

vars == <<pc, tree, passes, rewritten, input, lex, parsed, output, proc>>

(***************************************************************************)
(* Bounds of the model.                                                    *)
(***************************************************************************)
\* Largest number of gate nodes of an input tree of the rewrite.
MaxGates == 2
\* Number of times the rewrite is applied in a row.
MaxPasses == 2
\* Largest number of tokens of a call given to the parser and to translate.
MaxTokens == 11
\* Largest length of the token streams that are tried in every combination.
MaxStream == 6

(***************************************************************************)
(* Characters.                                                             *)
(***************************************************************************)
Upper == {"A", "B", "C", "D", "E", "F", "G", "H", "I", "J", "K", "L", "M",
          "N", "O", "P", "Q", "R", "S", "T", "U", "V", "W", "X", "Y", "Z"}
Lower == {"a", "b", "c", "d", "e", "f", "g", "h", "i", "j", "k", "l", "m",
          "n", "o", "p", "q", "r", "s", "t", "u", "v", "w", "x", "y", "z"}
Whitespace == {" ", "\t", "\n", "\r", "\f"}

(***************************************************************************)
(* Tokens (lex.rs).  A token without a payload has the empty identifier.   *)
(***************************************************************************)
LParen == [kind |-> "LParen", id |-> <<>>]
RParen == [kind |-> "RParen", id |-> <<>>]
Delim == [kind |-> "Delim", id |-> <<>>]
LexError == [kind |-> "LexError", id |-> <<>>]
FuncIdent(id) == [kind |-> "FuncIdent", id |-> id]
VarIdent(id) == [kind |-> "VarIdent", id |-> id]

\* Option<Token>::None, as peek() and next() return it at the end.
None == [kind |-> "None", id |-> <<>>]

AND_ID == <<"A", "n", "d">>
OR_ID == <<"O", "r">>
NAND_ID == <<"N", "a", "n", "d">>

(***************************************************************************)
(* The tokenizer: the patterns of the Logos derive on Token.  The longest  *)
(* match wins, whitespace is skipped, and a character that starts no       *)
(* pattern gives one LexError token, after which scanning goes on.         *)
(***************************************************************************)
RECURSIVE RunEnd(_, _, _)
\* The last position of the longest run of characters of class from p on
\* (p - 1 when s[p] is not of the class).
RunEnd(s, p, class) ==
    IF p <= Len(s) /\ s[p] \in class THEN RunEnd(s, p + 1, class) ELSE p - 1

\* The token that starts at position p (not a whitespace) and the position
\* of its last character.
token_at(s, p) ==
    IF s[p] = "(" THEN [token |-> LParen, end |-> p]
    ELSE IF s[p] = ")" THEN [token |-> RParen, end |-> p]
    ELSE IF s[p] = "," THEN [token |-> Delim, end |-> p]
    ELSE IF s[p] \in Upper /\ RunEnd(s, p + 1, Upper \cup Lower) > p
         THEN LET e == RunEnd(s, p + 1, Upper \cup Lower)
              IN  [token |-> FuncIdent(SubSeq(s, p, e)), end |-> e]
    ELSE IF s[p] \in Lower
         THEN LET e == RunEnd(s, p + 1, Lower \cup {"_"})
              IN  [token |-> VarIdent(SubSeq(s, p, e)), end |-> e]
    ELSE [token |-> LexError, end |-> p]

RECURSIVE lexer_from(_, _)
\* The tokens of s from position p on.
lexer_from(s, p) ==
    LET q == RunEnd(s, p, Whitespace) + 1
    IN  IF q > Len(s) THEN <<>>
        ELSE LET t == token_at(s, q)
             IN  <<t.token>> \o lexer_from(s, t.end + 1)

\* Token::lexer(input), collected.
lexer(s) == lexer_from(s, 1)

(***************************************************************************)
(* Trees (tree.rs).                                                        *)
(***************************************************************************)
Tree(token, branches) == [this |-> token, branches |-> branches]
leaf(token) == [this |-> token, branches |-> <<>>]

\* The value that stands for a panic of the rewrite (panic!, assert_eq!).
PanicTree == [this |-> [kind |-> "Panic", id |-> <<>>], branches |-> <<>>]
\* The value that stands for a panic of the printer.
PanicText == <<"panic">>

\* Helper to create a new Nand function tree.
nand(args) == Tree(FuncIdent(NAND_ID), args)

\* and_to_nand with the rule of Or: each operand against itself.
and_to_nand_as_or(and_tree) ==
    IF and_tree.this # FuncIdent(AND_ID) \/ Len(and_tree.branches) # 2
    THEN PanicTree
    ELSE nand(<<nand(<<and_tree.branches[1], and_tree.branches[1]>>),
                nand(<<and_tree.branches[2], and_tree.branches[2]>>)>>)

\* and_to_nand without the assignment and_tree.this = Nand.
and_to_nand_keeps_id(and_tree) ==
    IF and_tree.this # FuncIdent(AND_ID) \/ Len(and_tree.branches) # 2
    THEN PanicTree
    ELSE nand(<<and_tree, and_tree>>)

and_to_nand(and_tree) ==
    IF and_tree.this # FuncIdent(AND_ID) \/ Len(and_tree.branches) # 2
    THEN PanicTree
    ELSE LET inner_nand_1 == Tree(FuncIdent(NAND_ID), and_tree.branches)
             inner_nand_2 == Tree(FuncIdent(NAND_ID), and_tree.branches)
         IN  nand(<<inner_nand_1, inner_nand_2>>)

\* or_to_nand with the rule of And: both operands in each inner Nand.
or_to_nand_as_and(or_tree) ==
    IF or_tree.this # FuncIdent(OR_ID) \/ Len(or_tree.branches) # 2
    THEN PanicTree
    ELSE nand(<<nand(or_tree.branches), nand(or_tree.branches)>>)

\* or_to_nand with the two pops taken in the wrong order.
or_to_nand_swapped(or_tree) ==
    IF or_tree.this # FuncIdent(OR_ID) \/ Len(or_tree.branches) # 2
    THEN PanicTree
    ELSE LET arg_1 == or_tree.branches[2]
             arg_2 == or_tree.branches[1]
         IN  nand(<<nand(<<arg_1, arg_1>>), nand(<<arg_2, arg_2>>)>>)

\* or_to_nand building both inner Nands from the first operand.
or_to_nand_first_only(or_tree) ==
    IF or_tree.this # FuncIdent(OR_ID) \/ Len(or_tree.branches) # 2
    THEN PanicTree
    ELSE LET arg_1 == or_tree.branches[1]
             inner_nand_1 == nand(<<arg_1, arg_1>>)
             inner_nand_2 == nand(<<arg_1, arg_1>>)
         IN  nand(<<inner_nand_1, inner_nand_2>>)

or_to_nand(or_tree) ==
    IF or_tree.this # FuncIdent(OR_ID) \/ Len(or_tree.branches) # 2
    THEN PanicTree
    ELSE LET arg_2 == or_tree.branches[2]
             arg_1 == or_tree.branches[1]
             inner_nand_1 == nand(<<arg_1, arg_1>>)
             inner_nand_2 == nand(<<arg_2, arg_2>>)
         IN  nand(<<inner_nand_1, inner_nand_2>>)

RECURSIVE to_nand(_)
\* to_nand without the loop that rewrites the branches.
to_nand_shallow(t) ==
    IF t.this = FuncIdent(AND_ID) THEN and_to_nand(t)
    ELSE IF t.this = FuncIdent(OR_ID) THEN or_to_nand(t)
    ELSE IF t.this = FuncIdent(NAND_ID) \/ Len(t.branches) = 0 THEN t
    ELSE PanicTree

\* to_nand without the Nand case of the last condition.
to_nand_no_nand_case(t) ==
    LET branches == [i \in 1..Len(t.branches) |-> to_nand(t.branches[i])]
        tr == Tree(t.this, branches)
    IN  IF \E i \in 1..Len(branches) : branches[i] = PanicTree THEN PanicTree
        ELSE IF tr.this = FuncIdent(AND_ID) THEN and_to_nand(tr)
        ELSE IF tr.this = FuncIdent(OR_ID) THEN or_to_nand(tr)
        ELSE IF Len(tr.branches) = 0 THEN tr
        ELSE PanicTree

to_nand(t) ==
    LET branches == [i \in 1..Len(t.branches) |-> to_nand(t.branches[i])]
        tr == Tree(t.this, branches)
    IN  IF \E i \in 1..Len(branches) : branches[i] = PanicTree THEN PanicTree
        ELSE IF tr.this = FuncIdent(AND_ID) THEN and_to_nand(tr)
        ELSE IF tr.this = FuncIdent(OR_ID) THEN or_to_nand(tr)
        ELSE IF tr.this = FuncIdent(NAND_ID) \/ Len(tr.branches) = 0 THEN tr
        ELSE PanicTree

RECURSIVE to_string(_)
RECURSIVE more_branches(_, _)
\* The loop of to_string over the branches after the first.
more_branches(branches, i) ==
    IF i > Len(branches) THEN <<>>
    ELSE LET s == to_string(branches[i])
             rest == more_branches(branches, i + 1)
         IN  IF s = PanicText \/ rest = PanicText THEN PanicText
             ELSE <<",", " ">> \o s \o rest

\* to_string without the closing parenthesis.
to_string_unclosed(t) ==
    IF t.this.kind = "FuncIdent"
    THEN IF Len(t.branches) = 0 THEN PanicText
         ELSE LET first == to_string(t.branches[1])
                  rest == more_branches(t.branches, 2)
              IN  IF first = PanicText \/ rest = PanicText THEN PanicText
                  ELSE t.this.id \o <<"(">> \o first \o rest
    ELSE IF t.this.kind = "VarIdent" THEN t.this.id
    ELSE PanicText

to_string(t) ==
    IF t.this.kind = "FuncIdent"
    THEN IF Len(t.branches) = 0 THEN PanicText
         ELSE LET first == to_string(t.branches[1])
                  rest == more_branches(t.branches, 2)
              IN  IF first = PanicText \/ rest = PanicText THEN PanicText
                  ELSE t.this.id \o <<"(">> \o first \o rest \o <<")">>
    ELSE IF t.this.kind = "VarIdent" THEN t.this.id
    ELSE PanicText

(***************************************************************************)
(* The parser (parse.rs).  The token stream is the sequence toks read at   *)
(* position p; a result carries the position the stream is left at.        *)
(***************************************************************************)
\* Node::Func { id, args } and Node::Var { id }, as the parser builds them.
Node_Func(id, args) == [node |-> "Func", gate |-> id, var |-> <<>>, args |-> args]
Node_Var(id) == [node |-> "Var", gate |-> "none", var |-> id, args |-> <<>>]
\* No node: the value of a result that is an error.
NoNode == [node |-> "none", gate |-> "none", var |-> <<>>, args |-> <<>>]

\* enum ParseError.
UnexpectedToken(token) == [kind |-> "UnexpectedToken", token |-> token, id |-> <<>>]
InvalidFunctionId(id) == [kind |-> "InvalidFunctionId", token |-> None, id |-> id]
UnexpectedEnd == [kind |-> "UnexpectedEnd", token |-> None, id |-> <<>>]
NoError == [kind |-> "none", token |-> None, id |-> <<>>]

\* Display for Token.
Token_fmt(t) ==
    CASE t.kind = "LParen" -> <<"'", "(", "'">>
      [] t.kind = "RParen" -> <<"'", ")", "'">>
      [] t.kind = "Delim" -> <<"'", ",", "'">>
      [] t.kind = "FuncIdent" ->
             <<"f", "u", "n", "c", "t", "i", "o", "n", " ", "'">> \o t.id \o <<"'">>
      [] t.kind = "VarIdent" ->
             <<"v", "a", "r", "i", "a", "b", "l", "e", " ", "'">> \o t.id \o <<"'">>
      [] OTHER -> <<"l", "e", "x", "i", "c", "a", "l", " ", "e", "r", "r", "o", "r">>

\* Display for ParseError with every unexpected token printed the same way.
ParseError_fmt_no_token(err) ==
    CASE err.kind = "UnexpectedToken" ->
             <<"u", "n", "e", "x", "p", "e", "c", "t", "e", "d", " ", "m", "i", "s", "s", "i", "n", "g", " ", "t", "o", "k", "e", "n">>
      [] err.kind = "InvalidFunctionId" ->
             <<"u", "n", "k", "n", "o", "w", "n", " ", "f", "u", "n", "c", "t", "i", "o", "n", " ", "i", "d", " ", "'">> \o err.id \o <<"'">>
      [] OTHER -> <<"u", "n", "e", "x", "p", "e", "c", "t", "e", "d", " ", "e", "n", "d", " ", "o", "f", " ", "i", "n", "p", "u", "t">>

\* Display for ParseError.
ParseError_fmt(err) ==
    CASE err.kind = "UnexpectedToken" ->
             IF err.token # None
             THEN <<"u", "n", "e", "x", "p", "e", "c", "t", "e", "d", " ", "t", "o", "k", "e", "n", " ">>
                      \o Token_fmt(err.token)
             ELSE <<"u", "n", "e", "x", "p", "e", "c", "t", "e", "d", " ", "m", "i", "s", "s", "i", "n", "g", " ", "t", "o", "k", "e", "n">>
      [] err.kind = "InvalidFunctionId" ->
             <<"u", "n", "k", "n", "o", "w", "n", " ", "f", "u", "n", "c", "t", "i", "o", "n", " ", "i", "d", " ", "'">> \o err.id \o <<"'">>
      [] OTHER -> <<"u", "n", "e", "x", "p", "e", "c", "t", "e", "d", " ", "e", "n", "d", " ", "o", "f", " ", "i", "n", "p", "u", "t">>

\* Result<T>: Ok(val) and Err(err), with the stream position.
Ok(val, p) == [ok |-> TRUE, val |-> val, err |-> NoError, pos |-> p]
Err(err, p) == [ok |-> FALSE, val |-> NoNode, err |-> err, pos |-> p]

\* lex.peek() and the position after lex.next().
peek(toks, p) == IF p <= Len(toks) THEN toks[p] ELSE None
next(toks, p) == IF p <= Len(toks) THEN p + 1 ELSE p

\* Id::parse without the guards on num_args.
Id_parse_any_arity(id, num_args) ==
    IF id = AND_ID THEN "And"
    ELSE IF id = OR_ID THEN "Or"
    ELSE IF id = NAND_ID THEN "Nand"
    ELSE "none"

\* Id::parse with no guard on the num_args of Nand.
Id_parse_nand_any(id, num_args) ==
    IF id = AND_ID /\ num_args = 2 THEN "And"
    ELSE IF id = OR_ID /\ num_args = 2 THEN "Or"
    ELSE IF id = NAND_ID THEN "Nand"
    ELSE "none"

\* Id::parse: the gate table, "none" for Option::None.
Id_parse(id, num_args) ==
    IF id = AND_ID /\ num_args = 2 THEN "And"
    ELSE IF id = OR_ID /\ num_args = 2 THEN "Or"
    ELSE IF id = NAND_ID /\ num_args = 2 THEN "Nand"
    ELSE "none"

\* Display for Id.
Id_fmt(id) ==
    IF id = "And" THEN AND_ID ELSE IF id = "Or" THEN OR_ID ELSE NAND_ID

\* Consume the current lookahead and advance the token stream.
consume(toks, p) ==
    IF p <= Len(toks) THEN Ok(toks[p], p + 1) ELSE Err(UnexpectedEnd, p)

\* expect! reporting the end of the stream as UnexpectedEnd.
expect_end(kind, toks, p) ==
    IF peek(toks, p).kind = kind THEN consume(toks, p)
    ELSE IF peek(toks, p) = None THEN Err(UnexpectedEnd, p)
    ELSE Err(UnexpectedToken(peek(toks, p)), next(toks, p))

\* expect!(pattern, lex), the pattern being a token kind.
expect(kind, toks, p) ==
    IF peek(toks, p).kind = kind THEN consume(toks, p)
    ELSE Err(UnexpectedToken(peek(toks, p)), next(toks, p))

RECURSIVE func(_, _)
RECURSIVE arg_list_loop(_, _, _)

\* Rule: VarIdent | <F>
arg(toks, p) ==
    IF peek(toks, p).kind = "VarIdent"
    THEN LET token == consume(toks, p)
         IN  IF ~token.ok THEN token ELSE Ok(Node_Var(token.val.id), token.pos)
    ELSE IF peek(toks, p).kind = "FuncIdent" THEN func(toks, p)
    ELSE Err(UnexpectedToken(peek(toks, p)), next(toks, p))

\* The while loop of arg_list.
arg_list_loop(toks, p, args) ==
    IF peek(toks, p).kind = "Delim"
    THEN LET c == consume(toks, p)
         IN  IF ~c.ok THEN c
             ELSE LET a == arg(toks, c.pos)
                  IN  IF ~a.ok THEN a
                      ELSE arg_list_loop(toks, a.pos, Append(args, a.val))
    ELSE Ok(args, p)

\* Rule: <Arg> (Delim <Arg>)*
arg_list(toks, p) ==
    LET a == arg(toks, p)
    IN  IF ~a.ok THEN a ELSE arg_list_loop(toks, a.pos, <<a.val>>)

\* func looking the name up before it parses the argument list.
func_id_first(toks, p) ==
    LET token == expect("FuncIdent", toks, p)
    IN  IF ~token.ok THEN token
        ELSE IF token.val.id \notin {AND_ID, OR_ID, NAND_ID}
        THEN Err(InvalidFunctionId(token.val.id), token.pos)
        ELSE LET lp == expect("LParen", toks, token.pos)
             IN  IF ~lp.ok THEN lp
                 ELSE LET args == arg_list(toks, lp.pos)
                      IN  IF ~args.ok THEN args
                          ELSE LET rp == expect("RParen", toks, args.pos)
                               IN  IF ~rp.ok THEN rp
                                   ELSE LET token_id == token.val.id
                                            id == Id_parse(token_id, Len(args.val))
                                        IN  IF id = "none"
                                            THEN Err(InvalidFunctionId(token_id), rp.pos)
                                            ELSE Ok(Node_Func(id, args.val), rp.pos)

\* Rule: <F> ::= FuncIdent LParen <ArgList> RParen
func(toks, p) ==
    LET token == expect("FuncIdent", toks, p)
    IN  IF ~token.ok THEN token
        ELSE LET lp == expect("LParen", toks, token.pos)
             IN  IF ~lp.ok THEN lp
                 ELSE LET args == arg_list(toks, lp.pos)
                      IN  IF ~args.ok THEN args
                          ELSE LET rp == expect("RParen", toks, args.pos)
                               IN  IF ~rp.ok THEN rp
                                   ELSE LET token_id == token.val.id
                                            id == Id_parse(token_id, Len(args.val))
                                        IN  IF id = "none"
                                            THEN Err(InvalidFunctionId(token_id), rp.pos)
                                            ELSE Ok(Node_Func(id, args.val), rp.pos)

\* start returning the call whatever follows it.
start_no_end(toks) ==
    LET t == func(toks, 1)
    IN  IF ~t.ok THEN t ELSE Ok(t.val, t.pos)

\* Start symbol.  Rule: <S> ::= <F> end
start(toks) ==
    LET t == func(toks, 1)
    IN  IF ~t.ok THEN t
        ELSE IF peek(toks, t.pos) = None THEN Ok(t.val, t.pos)
        ELSE Err(UnexpectedToken(peek(toks, t.pos)), next(toks, t.pos))

(***************************************************************************)
(* The library entry point (lib.rs) with the parser that file defines:     *)
(* the same grammar, building a Tree from the tokens with no gate table.   *)
(***************************************************************************)
RECURSIVE lib_func(_, _)
RECURSIVE lib_arg_list_loop(_, _, _)

lib_arg(toks, p) ==
    IF peek(toks, p).kind = "VarIdent"
    THEN LET token == consume(toks, p)
         IN  IF ~token.ok THEN token ELSE Ok(leaf(token.val), token.pos)
    ELSE IF peek(toks, p).kind = "FuncIdent" THEN lib_func(toks, p)
    ELSE Err(UnexpectedToken(peek(toks, p)), next(toks, p))

\* The loop of arg_list putting each argument before the earlier ones.
lib_arg_list_loop_reversed(toks, p, args) ==
    IF peek(toks, p).kind = "Delim"
    THEN LET c == consume(toks, p)
         IN  IF ~c.ok THEN c
             ELSE LET a == lib_arg(toks, c.pos)
                  IN  IF ~a.ok THEN a
                      ELSE lib_arg_list_loop(toks, a.pos, <<a.val>> \o args)
    ELSE Ok(args, p)

lib_arg_list_loop(toks, p, args) ==
    IF peek(toks, p).kind = "Delim"
    THEN LET c == consume(toks, p)
         IN  IF ~c.ok THEN c
             ELSE LET a == lib_arg(toks, c.pos)
                  IN  IF ~a.ok THEN a
                      ELSE lib_arg_list_loop(toks, a.pos, Append(args, a.val))
    ELSE Ok(args, p)

lib_arg_list(toks, p) ==
    LET a == lib_arg(toks, p)
    IN  IF ~a.ok THEN a ELSE lib_arg_list_loop(toks, a.pos, <<a.val>>)

lib_func(toks, p) ==
    LET token == expect("FuncIdent", toks, p)
    IN  IF ~token.ok THEN token
        ELSE LET lp == expect("LParen", toks, token.pos)
             IN  IF ~lp.ok THEN lp
                 ELSE LET args == lib_arg_list(toks, lp.pos)
                      IN  IF ~args.ok THEN args
                          ELSE LET rp == expect("RParen", toks, args.pos)
                               IN  IF ~rp.ok THEN rp
                                   ELSE Ok(Tree(token.val, args.val), rp.pos)

\* The outcomes of translate: Ok(text), Err(error), or a panic of the thread.
TranslateOk(text) == [outcome |-> "Ok", text |-> text, err |-> NoError]
TranslateErr(err) == [outcome |-> "Err", text |-> <<>>, err |-> err]
TranslatePanic == [outcome |-> "panic", text |-> <<>>, err |-> NoError]
NotTranslated == [outcome |-> "none", text |-> <<>>, err |-> NoError]

\* translate of lib.rs: func(..).unwrap(), to_nand, Ok(input.to_owned()).
translate(text) ==
    LET ast == lib_func(lexer(text), 1)
    IN  IF ~ast.ok THEN TranslatePanic
        ELSE LET nand_ast == to_nand(ast.val)
             IN  IF nand_ast = PanicTree THEN TranslatePanic
                 ELSE TranslateOk(text)

(***************************************************************************)
(* Inputs of the rewrite: the trees of variables and two-argument And, Or  *)
(* and Nand nodes with at most MaxGates function nodes.                    *)
(***************************************************************************)
VarNames == {<<"a">>, <<"b", "_", "c">>}
Gates == {AND_ID, OR_ID, NAND_ID}

RECURSIVE TreesWith(_)
\* The valid trees with exactly n function nodes.
TreesWith(n) ==
    IF n = 0 THEN {leaf(VarIdent(v)) : v \in VarNames}
    ELSE UNION {{Tree(FuncIdent(g), <<l, r>>) :
                    g \in Gates, l \in TreesWith(i), r \in TreesWith(n - 1 - i)} :
                i \in 0..(n - 1)}

ValidTrees == UNION {TreesWith(n) : n \in 0..MaxGates}

(***************************************************************************)
(* Inputs of the parser and of translate: the calls of at most MaxTokens   *)
(* tokens, with any of the names below and any number of arguments, as a   *)
(* token stream (whole, cut short, or followed by one more token) and as   *)
(* text (printed, with or without spaces, with or without more text).      *)
(***************************************************************************)
XOR_NAME == <<"X", "o", "r">>
UPPER_AND_NAME == <<"A", "N", "D">>
FuncNames == Gates \cup {XOR_NAME, UPPER_AND_NAME}

RECURSIVE CallsOfLen(_)
RECURSIVE ArgListsOfLen(_)
\* The arguments of exactly n tokens.
ArgsOfLen(n) ==
    IF n = 1 THEN {leaf(VarIdent(v)) : v \in VarNames} ELSE CallsOfLen(n)

\* The calls of exactly n tokens.
CallsOfLen(n) ==
    IF n < 4 THEN {}
    ELSE {Tree(FuncIdent(f), al) : f \in FuncNames, al \in ArgListsOfLen(n - 3)}

\* The argument lists of exactly m tokens, delimiters included.
ArgListsOfLen(m) ==
    IF m < 1 THEN {}
    ELSE {<<a>> : a \in ArgsOfLen(m)} \cup
         UNION {{<<a>> \o rest : a \in ArgsOfLen(i),
                                 rest \in ArgListsOfLen(m - i - 1)} :
                i \in 1..(m - 2)}

CallTrees == UNION {CallsOfLen(n) : n \in 4..MaxTokens}

RECURSIVE CallTokens(_)
RECURSIVE ArgTokens(_, _)
\* The tokens of a call or of a variable.
CallTokens(t) ==
    IF Len(t.branches) = 0 THEN <<t.this>>
    ELSE <<t.this, LParen>> \o ArgTokens(t.branches, 1) \o <<RParen>>

ArgTokens(branches, i) ==
    IF i > Len(branches) THEN <<>>
    ELSE (IF i > 1 THEN <<Delim>> ELSE <<>>) \o CallTokens(branches[i])
             \o ArgTokens(branches, i + 1)

TrailingTokens ==
    {RParen, LParen, Delim, LexError, VarIdent(<<"a">>), FuncIdent(AND_ID)}

Streams(t) ==
    LET toks == CallTokens(t)
    IN  {SubSeq(toks, 1, n) : n \in 0..Len(toks)} \cup
        {toks \o <<x>> : x \in TrailingTokens}

\* Every stream of at most MaxStream tokens over the alphabet below.
TokenAlphabet ==
    {LParen, RParen, Delim, FuncIdent(AND_ID), FuncIdent(XOR_NAME),
     VarIdent(<<"a">>)}

TokenSeqs == UNION {[1..n -> TokenAlphabet] : n \in 0..MaxStream}

TrailingTexts ==
    {<<>>, <<")">>, <<" ", "a">>, <<",", " ", "a">>, <<"!">>, <<" ", "X">>}

Compact(text) == SelectSeq(text, LAMBDA c : c # " ")

Texts(t) ==
    UNION {{to_string(t) \o more, Compact(to_string(t) \o more)} :
           more \in TrailingTexts}

\* Values of the variables before the step that sets them.
NoTree == leaf(None)
NotParsed == Err(NoError, 0)

(***************************************************************************)
(* The command-line program (main.rs).  The process has its argument, its  *)
(* standard input (a terminal or piped text), what it has written and its  *)
(* exit status.                                                            *)
(***************************************************************************)
NoArg == [some |-> FALSE, text |-> <<>>]
Arg(text) == [some |-> TRUE, text |-> text]
Tty == [tty |-> TRUE, text |-> <<>>]
Pipe(text) == [tty |-> FALSE, text |-> text]

Process(argument, stdin) ==
    [arg |-> argument, stdin |-> stdin, stdin_read |-> FALSE, stdout |-> <<>>,
     stderr |-> <<>>, exited |-> FALSE, status |-> 0]

NoProcess == Process(NoArg, Tty)

\* BufRead::lines: the text cut at each newline, a carriage return before
\* the newline dropped, no line for the end of the text after a newline.
RECURSIVE lines(_)
lines(s) ==
    IF s = <<>> THEN <<>>
    ELSE LET ends == {i \in 1..Len(s) : s[i] = "\n"}
             nl == IF ends = {} THEN Len(s) + 1
                   ELSE CHOOSE i \in ends : \A j \in ends : i <= j
             cr == IF nl > 1 /\ nl <= Len(s) /\ s[nl - 1] = "\r" THEN 1 ELSE 0
         IN  <<SubSeq(s, 1, nl - 1 - cr)>> \o lines(SubSeq(s, nl + 1, Len(s)))

RECURSIVE fold(_, _)
\* The fold of load_stdin: each line followed by a newline.
fold(acc, ls) ==
    IF ls = <<>> THEN acc
    ELSE fold(acc \o ls[1] \o <<"\n">>, SubSeq(ls, 2, Len(ls)))

\* load_stdin: an error when stdin is a terminal, else the text of the pipe.
load_stdin(stdin) ==
    IF stdin.tty THEN [ok |-> FALSE, text |-> <<>>]
    ELSE [ok |-> TRUE, text |-> fold(<<>>, lines(stdin.text))]

\* The choice of the input with the pipe tried before the argument.
select_input_pipe_first(argument, stdin) ==
    IF ~stdin.tty
    THEN [exit |-> FALSE, input |-> load_stdin(stdin).text, read |-> TRUE]
    ELSE IF argument.some
    THEN [exit |-> FALSE, input |-> argument.text, read |-> FALSE]
    ELSE [exit |-> TRUE, input |-> <<>>, read |-> FALSE]

\* The choice of the input in main: the argument when there is one, else
\* the text of the pipe, else exit.
select_input(argument, stdin) ==
    IF argument.some
    THEN [exit |-> FALSE, input |-> argument.text, read |-> FALSE]
    ELSE LET loaded == load_stdin(stdin)
         IN  IF loaded.ok
             THEN [exit |-> FALSE, input |-> loaded.text, read |-> TRUE]
             ELSE [exit |-> TRUE, input |-> <<>>, read |-> FALSE]

\* The match on the result with the error printed to stdout.
main_report_on_stdout(result) ==
    IF result.outcome = "Ok"
    THEN [stdout |-> result.text \o <<"\n">>, stderr |-> <<>>, status |-> 0]
    ELSE [stdout |-> <<"E", "r", "r", "o", "r", ":", " ">>
                         \o ParseError_fmt(result.err) \o <<"\n">>,
          stderr |-> <<>>, status |-> 1]

\* The match on the result in main: println! of the translation, or
\* eprintln! of the error and exit(1).
main_report(result) ==
    IF result.outcome = "Ok"
    THEN [stdout |-> result.text \o <<"\n">>, stderr |-> <<>>, status |-> 0]
    ELSE [stdout |-> <<>>,
          stderr |-> <<"E", "r", "r", "o", "r", ":", " ">>
                         \o ParseError_fmt(result.err) \o <<"\n">>,
          status |-> 1]

\* What the process writes when a panic leaves main.
PanicMessage == <<"t", "h", "r", "e", "a", "d", " ", "'", "m", "a", "i", "n", "'", " ", "p", "a", "n", "i", "c", "k", "e", "d">>

\* The texts given as the argument and the texts piped to stdin.
ArgTexts ==
    {<<"N", "a", "n", "d", "(", "a", ",", " ", "b", ")">>,
     <<"A", "n", "d", "(", "a", ",", " ", "b", ")">>,
     <<"O", "r", "(", "a", ",", " ", "N", "a", "n", "d", "(", "a", ",", " ", "b", ")", ")">>,
     <<"X", "o", "r", "(", "a", ",", " ", "b", ")">>,
     <<"N", "a", "n", "d", "(", "a", ",", " ", "b", ")", ")">>,
     <<"O", "r", "(", "a", ")">>,
     <<>>}

PipeTexts ==
    {<<"N", "a", "n", "d", "(", "a", ",", " ", "b", ")">>,
     <<"N", "a", "n", "d", "(", "a", ",", " ", "b", ")", "\n">>,
     <<"A", "n", "d", "(", "a", ",", "\n", "b", ")", "\r", "\n">>,
     <<"X", "o", "r", "(", "a", ",", " ", "b", ")">>,
     <<"N", "a", "n", "d", "(", "a", ",", " ", "b", ")", ")", "\n">>,
     <<>>}

\* The errors of the type ParseError.
ParseErrors ==
    {UnexpectedToken(t) : t \in TokenAlphabet \cup {LexError, None}}
        \cup {InvalidFunctionId(f) : f \in FuncNames} \cup {UnexpectedEnd}

\* The values of the type Result<String, ParseError> of translate.
Results ==
    {TranslateOk(to_string(t)) : t \in ValidTrees}
        \cup {TranslateErr(e) : e \in ParseErrors}

(***************************************************************************)
(* Spec: a tree is rewritten (once or several times in a row), printed,    *)
(* tokenized and parsed again.                                             *)
(***************************************************************************)
Init ==
    /\ pc = "tree"
    /\ tree \in ValidTrees
    /\ passes = 0
    /\ rewritten = NoTree
    /\ input = <<>>
    /\ lex = <<>>
    /\ parsed = NotParsed
    /\ output = NotTranslated
    /\ proc = NoProcess

ToNand ==
    /\ pc \in {"tree", "rewritten"}
    /\ passes < MaxPasses
    /\ rewritten' = to_nand(IF passes = 0 THEN tree ELSE rewritten)
    /\ passes' = passes + 1
    /\ pc' = "rewritten"
    /\ UNCHANGED <<tree, input, lex, parsed, output, proc>>

Render ==
    /\ pc = "rewritten"
    /\ input' = to_string(rewritten)
    /\ pc' = "printed"
    /\ UNCHANGED <<tree, passes, rewritten, lex, parsed, output, proc>>

Lexer ==
    /\ pc = "printed"
    /\ lex' = lexer(input)
    /\ pc' = "lexed"
    /\ UNCHANGED <<tree, passes, rewritten, input, parsed, output, proc>>

Start ==
    /\ pc = "lexed"
    /\ parsed' = start(lex)
    /\ pc' = "parsed"
    /\ UNCHANGED <<tree, passes, rewritten, input, lex, output, proc>>

Next == ToNand \/ Render \/ Lexer \/ Start

Spec == Init /\ [][Next]_vars

(***************************************************************************)
(* SpecParse: the parser is run on a token stream.                         *)
(***************************************************************************)
InitParse ==
    /\ pc = "lexed"
    /\ \/ tree \in CallTrees /\ lex \in Streams(tree)
       \/ tree = NoTree /\ lex \in TokenSeqs
    /\ passes = 0
    /\ rewritten = NoTree
    /\ input = <<>>
    /\ parsed = NotParsed
    /\ output = NotTranslated
    /\ proc = NoProcess

NextParse == Start

SpecParse == InitParse /\ [][NextParse]_vars

(***************************************************************************)
(* SpecTranslate: translate is called on a text.                           *)
(***************************************************************************)
InitTranslate ==
    /\ pc = "text"
    /\ tree \in CallTrees
    /\ input \in Texts(tree)
    /\ passes = 0
    /\ rewritten = NoTree
    /\ lex = <<>>
    /\ parsed = NotParsed
    /\ output = NotTranslated
    /\ proc = NoProcess

Translate ==
    /\ pc = "text"
    /\ output' = translate(input)
    /\ pc' = "translated"
    /\ UNCHANGED <<tree, passes, rewritten, input, lex, parsed, proc>>

NextTranslate == Translate

SpecTranslate == InitTranslate /\ [][NextTranslate]_vars

(***************************************************************************)
(* SpecFunc: the Func rule of lib.rs is applied to a token stream.         *)
(***************************************************************************)
\* The tree A[B[C[c]], a] of the test parse_nested_ast.
NestedTree ==
    Tree(FuncIdent(<<"A">>),
         <<Tree(FuncIdent(<<"B">>),
                <<Tree(FuncIdent(<<"C">>), <<leaf(VarIdent(<<"c">>))>>)>>),
           leaf(VarIdent(<<"a">>))>>)

InitFunc ==
    /\ pc = "lexed"
    /\ \/ tree \in CallTrees \cup {NestedTree} /\ lex \in Streams(tree)
       \/ tree = NoTree /\ lex \in TokenSeqs
    /\ passes = 0
    /\ rewritten = NoTree
    /\ input = <<>>
    /\ parsed = NotParsed
    /\ output = NotTranslated
    /\ proc = NoProcess

LibFunc ==
    /\ pc = "lexed"
    /\ parsed' = lib_func(lex, 1)
    /\ pc' = "lib_parsed"
    /\ UNCHANGED <<tree, passes, rewritten, input, lex, output, proc>>

NextFunc == LibFunc

SpecFunc == InitFunc /\ [][NextFunc]_vars

(***************************************************************************)
(* SpecMain: a run of the program from its start to its exit.              *)
(***************************************************************************)
InitMain ==
    /\ pc = "main"
    /\ tree = NoTree
    /\ passes = 0
    /\ rewritten = NoTree
    /\ input = <<>>
    /\ lex = <<>>
    /\ parsed = NotParsed
    /\ output = NotTranslated
    /\ \E argument \in {NoArg} \cup {Arg(t) : t \in ArgTexts},
          stdin \in {Tty} \cup {Pipe(t) : t \in PipeTexts} :
           proc = Process(argument, stdin)

SelectInput ==
    /\ pc = "main"
    /\ LET chosen == select_input(proc.arg, proc.stdin)
       IN  /\ input' = chosen.input
           /\ proc' = [proc EXCEPT !.stdin_read = chosen.read,
                                   !.exited = chosen.exit,
                                   !.status = IF chosen.exit THEN 1 ELSE 0]
           /\ pc' = IF chosen.exit THEN "exited" ELSE "text"
    /\ UNCHANGED <<tree, passes, rewritten, lex, parsed, output>>

Report ==
    /\ pc = "translated"
    /\ output.outcome \in {"Ok", "Err"}
    /\ LET written == main_report(output)
       IN  proc' = [proc EXCEPT !.stdout = written.stdout,
                                !.stderr = written.stderr,
                                !.exited = TRUE,
                                !.status = written.status]
    /\ pc' = "exited"
    /\ UNCHANGED <<tree, passes, rewritten, input, lex, parsed, output>>

Abort ==
    /\ pc = "translated"
    /\ output.outcome = "panic"
    /\ proc' = [proc EXCEPT !.stderr = PanicMessage,
                            !.exited = TRUE,
                            !.status = 101]
    /\ pc' = "exited"
    /\ UNCHANGED <<tree, passes, rewritten, input, lex, parsed, output>>

NextMain == SelectInput \/ Translate \/ Report \/ Abort

SpecMain == InitMain /\ [][NextMain]_vars

(***************************************************************************)
(* SpecReport: main has a result of translate in its hands.                *)
(***************************************************************************)
InitReport ==
    /\ pc = "translated"
    /\ tree = NoTree
    /\ passes = 0
    /\ rewritten = NoTree
    /\ input = <<>>
    /\ lex = <<>>
    /\ parsed = NotParsed
    /\ output \in Results
    /\ proc = NoProcess

NextReport == Report

SpecReport == InitReport /\ [][NextReport]_vars

(***************************************************************************)
(* Reference notions the properties are stated with.                       *)
(***************************************************************************)
RECURSIVE Eval(_, _)
\* The truth value of a tree under env, with the usual meaning of the gates.
Eval(t, env) ==
    IF t.this.kind = "VarIdent" THEN env[t.this.id]
    ELSE LET x == Eval(t.branches[1], env)
             y == Eval(t.branches[2], env)
         IN  IF t.this.id = AND_ID THEN x /\ y
             ELSE IF t.this.id = OR_ID THEN x \/ y
             ELSE ~(x /\ y)

RECURSIVE EvalNand(_, _)
\* The truth value of a tree under env when every function node is a Nand
\* gate over its branches.
EvalNand(t, env) ==
    IF t.this.kind = "VarIdent" THEN env[t.this.id]
    ELSE ~(\A i \in 1..Len(t.branches) : EvalNand(t.branches[i], env))

RECURSIVE NandOnly(_)
\* Every function node, at every depth, is a Nand over two branches, and the
\* leaves are variables.
NandOnly(t) ==
    IF Len(t.branches) = 0 THEN t.this.kind = "VarIdent"
    ELSE /\ t.this = FuncIdent(NAND_ID)
         /\ Len(t.branches) = 2
         /\ \A i \in 1..Len(t.branches) : NandOnly(t.branches[i])

RECURSIVE HasGate(_, _)
\* Some function node of t has the identifier g.
HasGate(t, g) ==
    \/ (Len(t.branches) > 0 /\ t.this = FuncIdent(g))
    \/ \E i \in 1..Len(t.branches) : HasGate(t.branches[i], g)

RECURSIVE TreeOfNode(_)
\* The tree a parsed node stands for: same shape, the gate printed as its
\* identifier.
TreeOfNode(n) ==
    IF n.node = "Var" THEN leaf(VarIdent(n.var))
    ELSE Tree(FuncIdent(Id_fmt(n.gate)),
              [i \in 1..Len(n.args) |-> TreeOfNode(n.args[i])])

(***************************************************************************)
(* Properties of the rewrite and of the printer (Spec).                    *)
(***************************************************************************)
\* C2: the rewritten tree, read with Nand as the only gate, has the truth
\* value of the input tree under every assignment of the variables.
C2_PreservesMeaning ==
    passes = 1 =>
        \A env \in [VarNames -> BOOLEAN] :
            EvalNand(rewritten, env) = Eval(tree, env)

C2_Witness ==
    /\ passes = 1
    /\ tree.this = FuncIdent(AND_ID)
    /\ tree.branches[2].this = FuncIdent(OR_ID)
    /\ tree.branches[2].branches[1] # tree.branches[2].branches[2]

\* C3: every function node of the rewritten tree is a Nand.
C3_NandOnly == passes = 1 => NandOnly(rewritten)

C3_Witness ==
    /\ passes = 1
    /\ HasGate(tree, AND_ID)
    /\ HasGate(tree, OR_ID)
    /\ rewritten # tree

\* C4: And(x, y) becomes Nand(Nand(x', y'), Nand(x', y')) with x', y' the
\* rewritten operands, in their original order.
C4_AndRule ==
    (passes = 1 /\ tree.this = FuncIdent(AND_ID)) =>
        LET x == to_nand(tree.branches[1])
            y == to_nand(tree.branches[2])
        IN  rewritten = Tree(FuncIdent(NAND_ID),
                             <<Tree(FuncIdent(NAND_ID), <<x, y>>),
                               Tree(FuncIdent(NAND_ID), <<x, y>>)>>)

C4_Witness ==
    /\ passes = 1
    /\ tree.this = FuncIdent(AND_ID)
    /\ tree.branches[1].this = FuncIdent(OR_ID)
    /\ tree.branches[2].this.kind = "VarIdent"
    /\ rewritten.branches[1].branches[1] # tree.branches[1]

\* C5: Or(x, y) becomes Nand(Nand(x', x'), Nand(y', y')) with x', y' the
\* rewritten operands: the left one twice, then the right one twice.
C5_OrRule ==
    (passes = 1 /\ tree.this = FuncIdent(OR_ID)) =>
        LET x == to_nand(tree.branches[1])
            y == to_nand(tree.branches[2])
        IN  rewritten = Tree(FuncIdent(NAND_ID),
                             <<Tree(FuncIdent(NAND_ID), <<x, x>>),
                               Tree(FuncIdent(NAND_ID), <<y, y>>)>>)

C5_Witness ==
    /\ passes = 1
    /\ tree.this = FuncIdent(OR_ID)
    /\ tree.branches[1].this.kind = "VarIdent"
    /\ tree.branches[2].this = FuncIdent(AND_ID)
    /\ rewritten.branches[2].branches[1] # tree.branches[2]

\* C6: a tree that is a variable or has only Nand nodes is left as it is.
C6_IdentityOnNand == (passes = 1 /\ NandOnly(tree)) => rewritten = tree

C6_Witness ==
    /\ passes = 1
    /\ tree.this = FuncIdent(NAND_ID)
    /\ tree.branches[1].this = FuncIdent(NAND_ID)
    /\ NandOnly(tree)

\* C7: rewriting the rewritten tree again changes nothing.
C7_Idempotent ==
    passes = 2 =>
        /\ rewritten = to_nand(tree)
        /\ rewritten # PanicTree

C7_Witness ==
    /\ passes = 2
    /\ HasGate(tree, AND_ID)
    /\ HasGate(tree, OR_ID)

ValidCall(t) == t.this.id \in {AND_ID, OR_ID, NAND_ID} /\ Len(t.branches) = 2

RECURSIVE FirstInvalid(_)
RECURSIVE FirstInvalidIn(_, _)
\* The name of the call of t that is not valid and whose closing parenthesis
\* comes first in the token stream; the empty name when every call is valid.
FirstInvalid(t) ==
    IF Len(t.branches) = 0 THEN <<>>
    ELSE LET inner == FirstInvalidIn(t.branches, 1)
         IN  IF inner # <<>> THEN inner
             ELSE IF ValidCall(t) THEN <<>>
             ELSE t.this.id

FirstInvalidIn(branches, i) ==
    IF i > Len(branches) THEN <<>>
    ELSE IF FirstInvalid(branches[i]) # <<>> THEN FirstInvalid(branches[i])
    ELSE FirstInvalidIn(branches, i + 1)

\* The text is one call and nothing else, every call of it valid.
ValidInput == FirstInvalid(tree) = <<>> /\ lexer(input) = CallTokens(tree)

\* The text is a call of valid calls followed by at least one more token.
TrailingInput ==
    LET toks == lexer(input)
        n == Len(CallTokens(tree))
    IN  /\ FirstInvalid(tree) = <<>>
        /\ Len(toks) > n
        /\ SubSeq(toks, 1, n) = CallTokens(tree)

\* C1: on a valid call, translate returns the printed rewritten tree.
C1_TranslateRenders ==
    (pc = "translated" /\ ValidInput) =>
        output = TranslateOk(to_string(to_nand(tree)))

C10_TrailingTokenFails ==
    (pc = "translated" /\ TrailingInput) =>
        output = TranslateErr(
                     UnexpectedToken(lexer(input)[Len(CallTokens(tree)) + 1]))

\* Some token of the text is a lexical error.
HasLexError == \E i \in 1..Len(lexer(input)) : lexer(input)[i] = LexError

\* C11: translate returns Ok or Err for every text; it never panics.
C11_NeverPanics ==
    pc = "translated" => output.outcome \in {"Ok", "Err"}

\* C12: a text with a character sequence that matches no token pattern is
\* not translated, wherever the sequence stands.
C12_LexicalErrorFails ==
    (pc = "translated" /\ HasLexError) => output.outcome # "Ok"

(***************************************************************************)
(* The grammar as a reference: a scan of the stream from left to right     *)
(* with the stack of the calls that are open, each with its name and the   *)
(* number of arguments read so far.  It ends at the first event: a token   *)
(* the grammar does not allow at index at (or the end of the stream where  *)
(* a token is required), the closing of a call that is not in the gate     *)
(* table, or the end of a whole sentence.                                  *)
(***************************************************************************)
RefOk == [kind |-> "ok", at |-> 0, id |-> <<>>]
RefToken(i) == [kind |-> "token", at |-> i, id |-> <<>>]
RefId(i, id) == [kind |-> "id", at |-> i, id |-> id]

RECURSIVE Scan(_, _, _, _)
Scan(toks, i, stack, expecting) ==
    IF i > Len(toks)
    THEN IF expecting = "end" THEN RefOk ELSE RefToken(i)
    ELSE LET tok == toks[i]
             n == Len(stack)
             open == Append(stack, [id |-> tok.id, n |-> 0])
         IN  CASE expecting = "call" /\ tok.kind = "FuncIdent" ->
                      Scan(toks, i + 1, open, "lparen")
               [] expecting = "lparen" /\ tok.kind = "LParen" ->
                      Scan(toks, i + 1, stack, "arg")
               [] expecting = "arg" /\ tok.kind = "VarIdent" ->
                      Scan(toks, i + 1, [stack EXCEPT ![n].n = @ + 1], "sep")
               [] expecting = "arg" /\ tok.kind = "FuncIdent" ->
                      Scan(toks, i + 1, open, "lparen")
               [] expecting = "sep" /\ tok.kind = "Delim" ->
                      Scan(toks, i + 1, stack, "arg")
               [] expecting = "sep" /\ tok.kind = "RParen" ->
                      IF ~(stack[n].id \in {AND_ID, OR_ID, NAND_ID}
                           /\ stack[n].n = 2)
                      THEN RefId(i, stack[n].id)
                      ELSE IF n = 1 THEN Scan(toks, i + 1, <<>>, "end")
                      ELSE Scan(toks, i + 1,
                                [SubSeq(stack, 1, n - 1) EXCEPT ![n - 1].n = @ + 1],
                                "sep")
               [] OTHER -> RefToken(i)

\* The first event of the stream under the grammar Start ::= Func end.
Reference(toks) == Scan(toks, 1, <<>>, "call")

\* The stream is a proper prefix of the tokens of a call of valid calls.
CutShort ==
    /\ Len(tree.branches) > 0
    /\ FirstInvalid(tree) = <<>>
    /\ Len(lex) < Len(CallTokens(tree))
    /\ lex = SubSeq(CallTokens(tree), 1, Len(lex))

\* C13 as stated: a stream that ends where a token is required fails with
\* UnexpectedEnd.
C13_UnexpectedEnd ==
    (pc = "parsed" /\ CutShort) => (~parsed.ok /\ parsed.err = UnexpectedEnd)

\* C13 as amended: a stream that ends where a token is required fails with
\* UnexpectedToken carrying no token.
C13_UnexpectedMissingToken ==
    (pc = "parsed" /\ CutShort) =>
        (~parsed.ok /\ parsed.err = UnexpectedToken(None))

C13_Witness ==
    /\ pc = "parsed"
    /\ CutShort
    /\ Len(lex) = 4
    /\ lex[4] = Delim
    /\ parsed.err = UnexpectedToken(None)

\* Streams of at most two tokens, to compare a failed parse with.
ShortSeqs == UNION {[1..n -> TokenAlphabet] : n \in 0..2}

\* The description of the first event of a stream that is no sentence: the
\* offending token or identifier, with no index.
Offender(toks) ==
    LET r == Reference(toks)
    IN  IF r.kind = "id"
        THEN <<"u", "n", "k", "n", "o", "w", "n", " ", "f", "u", "n", "c", "t", "i", "o", "n", " ", "i", "d", " ", "'">> \o r.id \o <<"'">>
        ELSE IF r.at > Len(toks)
        THEN <<"u", "n", "e", "x", "p", "e", "c", "t", "e", "d", " ", "m", "i", "s", "s", "i", "n", "g", " ", "t", "o", "k", "e", "n">>
        ELSE <<"u", "n", "e", "x", "p", "e", "c", "t", "e", "d", " ", "t", "o", "k", "e", "n", " ">>
                 \o Token_fmt(toks[r.at])

\* C14 as stated: the error identifies the position of the offending token,
\* so streams that fail at different indexes give different errors.
C14_PositionInError ==
    (pc = "parsed" /\ ~parsed.ok) =>
        \A other \in ShortSeqs :
            (Reference(other).kind # "ok"
             /\ Reference(other).at # Reference(lex).at)
                => start(other).err # parsed.err

\* C14 as amended: the text of the error describes the offending token or
\* identifier and nothing else, so it is the same at every index.
C14_ErrorText ==
    (pc = "parsed" /\ ~parsed.ok) =>
        LET text == Offender(lex)
        IN  /\ ParseError_fmt(parsed.err) = text
            /\ \A other \in ShortSeqs :
                   (Reference(other).kind # "ok" /\ Offender(other) = text)
                       => start(other).err = parsed.err

C14_Witness ==
    /\ pc = "parsed"
    /\ lex = CallTokens(tree) \o <<RParen>>
    /\ Len(lex) = 7
    /\ ParseError_fmt(parsed.err)
           = <<"u", "n", "e", "x", "p", "e", "c", "t", "e", "d", " ", "t", "o", "k", "e", "n", " ", "'", ")", "'">>
    /\ start(<<RParen>>).err = parsed.err

RECURSIVE BinaryNode(_)
\* Every Func node of n has two arguments.
BinaryNode(n) ==
    \/ n.node = "Var"
    \/ (Len(n.args) = 2 /\ \A i \in 1..2 : BinaryNode(n.args[i]))

RECURSIVE BinaryTree(_)
\* Every function node of t has two branches.
BinaryTree(t) ==
    /\ t.this.kind = "FuncIdent" => Len(t.branches) = 2
    /\ \A i \in 1..Len(t.branches) : BinaryTree(t.branches[i])

Contains(hay, needle) ==
    \E i \in 0..(Len(hay) - Len(needle)) :
        SubSeq(hay, i + 1, i + Len(needle)) = needle

\* C15: for an error of translate the program writes one line to stderr that
\* starts with Error and holds the description of the error, writes nothing
\* to stdout and exits with a status other than zero; for a translation it
\* writes the translation to stdout and exits with status zero.
C15_ErrorReported ==
    pc = "exited" =>
        IF output.outcome = "Err"
        THEN /\ Len(proc.stderr) > 5
             /\ SubSeq(proc.stderr, 1, 5) = <<"E", "r", "r", "o", "r">>
             /\ Contains(proc.stderr, ParseError_fmt(output.err))
             /\ {i \in 1..Len(proc.stderr) : proc.stderr[i] = "\n"}
                    = {Len(proc.stderr)}
             /\ proc.stdout = <<>>
             /\ proc.exited /\ proc.status # 0
        ELSE /\ output.outcome = "Ok"
             /\ proc.stdout = output.text \o <<"\n">>
             /\ proc.stderr = <<>>
             /\ proc.exited /\ proc.status = 0

C15_Witness ==
    /\ pc = "exited"
    /\ output = TranslateErr(UnexpectedToken(RParen))
    /\ proc.stderr = <<"E", "r", "r", "o", "r", ":", " ", "u", "n", "e", "x", "p", "e", "c", "t", "e", "d", " ", "t", "o", "k", "e", "n", " ", "'", ")", "'", "\n">>
    /\ proc.stdout = <<>>
    /\ proc.status = 1

\* What a run of the program on the text writes and how it exits.
RunOf(text) ==
    LET result == translate(text)
    IN  IF result.outcome = "panic"
        THEN [stdout |-> <<>>, stderr |-> PanicMessage, status |-> 101]
        ELSE main_report(result)

\* C16: with an argument the program translates the argument and never
\* reads stdin, so what it writes and its exit status are those of the
\* argument whatever is piped; stdin is read only with no argument.
C16_ArgumentOnly ==
    pc = "exited" =>
        /\ proc.stdin_read => ~proc.arg.some
        /\ proc.arg.some =>
               /\ ~proc.stdin_read
               /\ input = proc.arg.text
               /\ [stdout |-> proc.stdout, stderr |-> proc.stderr,
                   status |-> proc.status] = RunOf(proc.arg.text)

C16_Witness ==
    /\ pc = "exited"
    /\ proc.arg = Arg(<<"N", "a", "n", "d", "(", "a", ",", " ", "b", ")">>)
    /\ proc.stdin = Pipe(<<"X", "o", "r", "(", "a", ",", " ", "b", ")">>)
    /\ ~proc.stdin_read
    /\ proc.stdout = <<"N", "a", "n", "d", "(", "a", ",", " ", "b", ")", "\n">>
    /\ proc.status = 0

\* C18: the Func rule of lib.rs accepts a call of any name with one or more
\* arguments, and the tree it returns has the identifier as its root and the
\* arguments as its branches in source order, calls inside calls as
\* subtrees: it is the tree the tokens were written from.
C18_FuncBuildsTree ==
    (pc = "lib_parsed" /\ Len(tree.branches) > 0 /\ lex = CallTokens(tree)) =>
        /\ parsed.ok
        /\ parsed.val = tree
        /\ parsed.pos = Len(lex) + 1

\* The tokens of A(B(C(c)), a) give the tree A[B[C[c]], a].
C18_Witness ==
    /\ pc = "lib_parsed"
    /\ tree = NestedTree
    /\ lex = CallTokens(tree)
    /\ Len(lex) = 12
    /\ parsed.ok
    /\ parsed.val = NestedTree

RECURSIVE SumOf(_, _)
RECURSIVE NodeCount(_)
\* The number of nodes of the trees of a list from index i on.
SumOf(branches, i) ==
    IF i > Len(branches) THEN 0
    ELSE NodeCount(branches[i]) + SumOf(branches, i + 1)

\* The number of nodes of a tree, function nodes and variables.
NodeCount(t) == 1 + SumOf(t.branches, 1)

RECURSIVE VarsOf(_)
\* The variable identifiers that occur in a tree.
VarsOf(t) ==
    IF Len(t.branches) = 0 THEN {t.this.id}
    ELSE UNION {VarsOf(t.branches[i]) : i \in 1..Len(t.branches)}

\* C21: the rewritten tree has at least as many nodes as the tree, as many
\* exactly when the tree has no And and no Or, and the same set of variable
\* identifiers.
C21_NeverShrinks ==
    passes > 0 =>
        /\ rewritten # PanicTree
        /\ NodeCount(rewritten) >= NodeCount(tree)
        /\ NodeCount(rewritten) = NodeCount(tree)
               <=> (~HasGate(tree, AND_ID) /\ ~HasGate(tree, OR_ID))
        /\ VarsOf(rewritten) = VarsOf(tree)

\* Or(a, And(a, b_c)): 5 nodes become 19, with the same two variables.
C21_Witness ==
    /\ pc = "rewritten"
    /\ passes = 1
    /\ tree.this = FuncIdent(OR_ID)
    /\ Len(tree.branches[2].branches) = 2
    /\ tree.branches[2].this = FuncIdent(AND_ID)
    /\ NodeCount(tree) = 5
    /\ NodeCount(rewritten) = 19
    /\ VarsOf(rewritten) = {<<"a">>, <<"b", "_", "c">>}

=============================================================================
